---- MODULE Spec2Model ----
(***************************************************************************)
(* State-machine model of the messaging core of global-connect-backend:    *)
(* ChatService (src/src/chat/chat.service.ts) over the relational store    *)
(* (migration.sql), and the socket gateway ChatGateway                      *)
(* (src/unnamed/part_009) with WsJwtAuthGuard.                             *)
(*                                                                         *)
(* Service calls whose awaits matter for a race (addReaction, createMessage)*)
(* are modelled one store round trip per step, run by the handlers in      *)
(* `calls`; the other service calls are one action each.                   *)
(***************************************************************************)
EXTENDS Integers, Sequences, FiniteSets, TLC

\* ------------------------------------------------------------------ bounds
MaxConversations == 1
MaxConnections == 2
MaxMessages == 2
MaxReactions == 2

Users == {"u1", "u2", "u3"}
Contents == {"hi"}
\* handlers that may be suspended in a service call at once
Handlers == {"h1", "h2"}

\* ------------------------------------------------------------ schema enums
ConnectionStatus == {"PENDING", "ACCEPTED", "BLOCKED", "REMOVED"}
MessageStatus == {"SENT", "DELIVERED", "READ"}
ReactionType == {"EMOJI", "LIKE", "LOVE", "HAHA", "WOW", "SAD", "ANGRY"}
\* reaction types the clients of the model send; "BOGUS" is not a ReactionType
ReactionInputs == {"LIKE", "LOVE", "BOGUS"}

\* ----------------------------------------------------------------- errors
OK == "ok"
NotFoundException == "NotFoundException"
BadRequestException == "BadRequestException"
\* Prisma known request errors raised by the store's constraints
P2002 == "P2002 unique constraint failed"
P2003 == "P2003 foreign key constraint failed"

VARIABLES
  conversations,  \* Seq of [participants, lastMessageId]; row i has id
                  \* ConversationId(i), lastMessageId 0 stands for NULL
  connections,    \* Seq of [requesterId, receiverId, status]; row i has id i
  messages,       \* Seq of message rows; row i has id i
  reactions,      \* set of [id, messageId, userId, type]
  calls,          \* handler -> the service call it is suspended in
  last,           \* the service call that completed last, and its outcome
  online,         \* User.online
  sockets,        \* socket -> transport state, handshake token, data.user, rooms
  broadcasts,     \* 'user:status' events emitted to every socket
  blockedUsers,   \* set of BlockedUser rows [id, blockedById, userId]
  inbox,          \* socket -> the room events delivered to it
  chatCredits     \* user -> the user's ChatCredits row, if any

storeVars == <<conversations, connections, messages, reactions>>
gatewayVars == <<online, sockets, broadcasts>>
moreVars == <<blockedUsers, inbox, chatCredits>>
vars == <<conversations, connections, messages, reactions, calls, last,
          online, sockets, broadcasts, blockedUsers, inbox, chatCredits>>

\* ------------------------------------------------------------ conversions
Digit(d) == CASE d = 0 -> "0" [] d = 1 -> "1" [] d = 2 -> "2" [] d = 3 -> "3"
              [] d = 4 -> "4" [] d = 5 -> "5" [] d = 6 -> "6" [] d = 7 -> "7"
              [] d = 8 -> "8" [] d = 9 -> "9"

RECURSIVE NumberToString(_)
\* Number.prototype.toString(): the decimal numeral of a non-negative integer
NumberToString(n) ==
  IF n < 10 THEN Digit(n) ELSE NumberToString(n \div 10) \o Digit(n % 10)

\* The id the store generates for the i-th Conversation row: the column is
\* TEXT with a generated default (a uuid), never a decimal numeral.
ConversationId(i) == "cv-" \o NumberToString(i)

ConversationIds == {ConversationId(i) : i \in 1..Len(conversations)}

ConversationIndex(id) ==
  CHOOSE i \in 1..Len(conversations) : ConversationId(i) = id

\* ------------------------------------------------------------ call records
NoCall == [op |-> "idle", pc |-> "idle", userId |-> "", conversationId |-> "",
           messageId |-> 0, type |-> "", other |-> "", connectionId |-> 0,
           content |-> "", socket |-> "", amount |-> 0, balance |-> 0]

NoResult == [op |-> "none", userId |-> "", connectionId |-> 0,
             conversationId |-> "", messageId |-> 0, type |-> "",
             status |-> "", socket |-> "", outcome |-> "", pre |-> FALSE,
             ack |-> "", updatedCount |-> 0, header |-> <<>>]

Result(op, userId, outcome) ==
  [NoResult EXCEPT !.op = op, !.userId = userId, !.outcome = outcome]

PrismaClientValidationError == "PrismaClientValidationError"
P2025 == "P2025 record not found"

\* a user without a ChatCredits row; lastDailyReward tells whether the row's
\* lastDailyReward is a time of the current day
NoCredits == [exists |-> FALSE, balance |-> 0, lastDailyReward |-> FALSE]

\* ------------------------------------------------------------ store reads
\* a findFirst that forgets the status filter
FindAcceptedConnection_AnyStatus(connectionId, userId) ==
  {i \in 1..Len(connections) :
     /\ i = connectionId
     /\ \/ connections[i].requesterId = userId
        \/ connections[i].receiverId = userId}

\* a duplicate check that never finds the user's reaction
ExistingReaction_None(userId, messageId, type) == {}

\* a findFirst that forgets the type filter
FindReaction_AnyType(userId, messageId, type) ==
  {r \in reactions : r.messageId = messageId /\ r.userId = userId}

\* connection.findFirst({id, OR:[requester, receiver], status: 'ACCEPTED'})
FindAcceptedConnection(connectionId, userId) ==
  {i \in 1..Len(connections) :
     /\ i = connectionId
     /\ \/ connections[i].requesterId = userId
        \/ connections[i].receiverId = userId
     /\ connections[i].status = "ACCEPTED"}

\* connection.findFirst({OR:[(a,b),(b,a)], status: 'ACCEPTED'})
FindAcceptedBetween(a, b) ==
  {i \in 1..Len(connections) :
     /\ \/ connections[i].requesterId = a /\ connections[i].receiverId = b
        \/ connections[i].requesterId = b /\ connections[i].receiverId = a
     /\ connections[i].status = "ACCEPTED"}

\* message.findUnique({id})
MessageExists(messageId) == messageId \in 1..Len(messages)

\* message.reactions.find(r => r.userId === userId && r.type === type)
ExistingReaction(userId, messageId, type) ==
  {r \in reactions :
     r.messageId = messageId /\ r.userId = userId /\ r.type = type}

\* reaction.findFirst({messageId, userId, type})
FindReaction(userId, messageId, type) ==
  {r \in reactions :
     r.messageId = messageId /\ r.userId = userId /\ r.type = type}

\* isReactionType(value)
isReactionType(value) == value \in ReactionType

\* ------------------------------------------------------ store constraints
\* UNIQUE INDEX Connection(requesterId, receiverId)
ConnectionUniqueViolation(requesterId, receiverId) ==
  \E i \in 1..Len(connections) :
    /\ connections[i].requesterId = requesterId
    /\ connections[i].receiverId = receiverId

\* UNIQUE INDEX Reaction(messageId, userId, type)
ReactionUniqueViolation(messageId, userId, type) ==
  \E r \in reactions :
    r.messageId = messageId /\ r.userId = userId /\ r.type = type

\* FOREIGN KEY Message(conversationId) REFERENCES Conversation(id)
MessageConversationFk(conversationId) == conversationId \in ConversationIds

\* FOREIGN KEY Message(connectionId) REFERENCES Connection(id)
MessageConnectionFk(connectionId) == connectionId \in 1..Len(connections)

FreeReactionIds == (1..MaxReactions) \ {r.id : r \in reactions}

NewMessage(conversationId, connectionId, senderId, content) ==
  [conversationId |-> conversationId, connectionId |-> connectionId,
   senderId |-> senderId, content |-> content, status |-> "SENT",
   isRead |-> FALSE]

\* --------------------------------------------------------- ChatService
\* createConversation(participantIds), called with [user.id, participantId]
CreateConversation(userId, participantId) ==
  /\ Len(conversations) < MaxConversations
  /\ conversations' =
       Append(conversations, [participants |-> {userId, participantId},
                              lastMessageId |-> 0])
  /\ last' = [Result("createConversation", userId, OK) EXCEPT
                !.conversationId = ConversationId(Len(conversations) + 1)]
  /\ UNCHANGED <<connections, messages, reactions, calls, gatewayVars, moreVars>>

\* sendMessage(connectionId, userId, content)
SendMessage(connectionId, userId, content) ==
  LET connection == FindAcceptedConnection(connectionId, userId)
      conversationId == NumberToString(connectionId)
      res == [Result("sendMessage", userId, OK) EXCEPT
                !.connectionId = connectionId, !.pre = (connection # {})]
  IN
  /\ IF connection = {}
       THEN /\ last' = [res EXCEPT !.outcome = NotFoundException]
            /\ UNCHANGED messages
       ELSE IF ~ MessageConversationFk(conversationId)
                 \/ ~ MessageConnectionFk(connectionId)
         THEN /\ last' = [res EXCEPT !.outcome = P2003]
              /\ UNCHANGED messages
         ELSE /\ Len(messages) < MaxMessages
              /\ messages' = Append(messages,
                   NewMessage(conversationId, connectionId, userId, content))
              /\ last' = [res EXCEPT !.messageId = Len(messages) + 1,
                                     !.conversationId = conversationId,
                                     !.status = "SENT"]
  /\ UNCHANGED <<conversations, connections, reactions, calls, gatewayVars, moreVars>>

\* updateConnectionStatus(connectionId, status)
UpdateConnectionStatus(connectionId, status) ==
  LET res == [Result("updateConnectionStatus", "", OK) EXCEPT
                !.connectionId = connectionId]
  IN
  /\ IF connectionId \in 1..Len(connections)
       THEN /\ connections' =
                 [connections EXCEPT ![connectionId].status = status]
            /\ last' = res
       ELSE /\ last' = [res EXCEPT !.outcome = P2025]
            /\ UNCHANGED connections
  /\ UNCHANGED <<conversations, messages, reactions, calls, gatewayVars, moreVars>>

\* createMessage(conversationId, senderId, content): conversation.findUnique
\* and the choice of the other participant
CreateMessageFindConversation(h, conversationId, senderId, content) ==
  LET res == [Result("createMessage", senderId, OK) EXCEPT
                !.conversationId = conversationId]
  IN
  /\ calls[h].op = "idle"
  /\ IF conversationId \notin ConversationIds
       THEN /\ last' = [res EXCEPT !.outcome = NotFoundException]
            /\ UNCHANGED calls
       ELSE LET others ==
                  conversations[ConversationIndex(conversationId)].participants
                    \ {senderId}
            IN IF others = {}
                 THEN /\ last' = [res EXCEPT !.outcome = BadRequestException]
                      /\ UNCHANGED calls
                 ELSE \E otherParticipant \in others :
                        /\ calls' = [calls EXCEPT ![h] =
                             [NoCall EXCEPT !.op = "createMessage",
                                !.pc = "findConnection",
                                !.userId = senderId,
                                !.conversationId = conversationId,
                                !.other = otherParticipant,
                                !.content = content]]
                        /\ UNCHANGED last
  /\ UNCHANGED <<storeVars, gatewayVars, moreVars>>

\* createMessage: connection.findFirst between sender and other participant
CreateMessageFindConnection(h) ==
  LET c == calls[h]
      found == FindAcceptedBetween(c.userId, c.other)
  IN
  /\ c.op = "createMessage" /\ c.pc = "findConnection"
  /\ IF found = {}
       THEN calls' = [calls EXCEPT ![h].pc = "createConnection"]
       ELSE \E connection \in found :
              calls' = [calls EXCEPT ![h].pc = "createMessage",
                                     ![h].connectionId = connection]
  /\ UNCHANGED <<storeVars, last, gatewayVars, moreVars>>

\* createMessage: connection.create({requester: sender, receiver: other,
\* status: 'ACCEPTED'})
CreateMessageCreateConnection(h) ==
  LET c == calls[h]
      res == [Result("createMessage", c.userId, OK) EXCEPT
                !.conversationId = c.conversationId]
  IN
  /\ c.op = "createMessage" /\ c.pc = "createConnection"
  /\ IF ConnectionUniqueViolation(c.userId, c.other)
       THEN /\ last' = [res EXCEPT !.outcome = P2002]
            /\ calls' = [calls EXCEPT ![h] = NoCall]
            /\ UNCHANGED connections
       ELSE /\ Len(connections) < MaxConnections
            /\ connections' = Append(connections,
                 [requesterId |-> c.userId, receiverId |-> c.other,
                  status |-> "ACCEPTED"])
            /\ calls' = [calls EXCEPT ![h].pc = "createMessage",
                                      ![h].connectionId = Len(connections) + 1]
            /\ UNCHANGED last
  /\ UNCHANGED <<conversations, messages, reactions, gatewayVars, moreVars>>

\* createMessage: message.create with status SENT
CreateMessageCreateMessage(h) ==
  LET c == calls[h]
      res == [Result("createMessage", c.userId, OK) EXCEPT
                !.conversationId = c.conversationId,
                !.connectionId = c.connectionId]
  IN
  /\ c.op = "createMessage" /\ c.pc = "createMessage"
  /\ Len(messages) < MaxMessages
  /\ IF ~ MessageConversationFk(c.conversationId)
          \/ ~ MessageConnectionFk(c.connectionId)
       THEN /\ last' = [res EXCEPT !.outcome = P2003]
            /\ UNCHANGED messages
       ELSE /\ messages' = Append(messages,
                 NewMessage(c.conversationId, c.connectionId, c.userId,
                            c.content))
            /\ last' = [res EXCEPT !.messageId = Len(messages) + 1,
                                   !.status = "SENT"]
  /\ calls' = [calls EXCEPT ![h] = NoCall]
  /\ UNCHANGED <<conversations, connections, reactions, gatewayVars, moreVars>>

\* addReaction(userId, dto): message.findUnique with its reactions, and the
\* check that the user has not reacted with this type
AddReactionFindMessage(h, userId, messageId, type) ==
  LET res == [Result("addReaction", userId, OK) EXCEPT
                !.messageId = messageId, !.type = type,
                !.pre = (ReactionUniqueViolation(messageId, userId, type))]
  IN
  /\ calls[h].op = "idle"
  /\ IF ~ MessageExists(messageId)
       THEN /\ last' = [res EXCEPT !.outcome = NotFoundException]
            /\ UNCHANGED calls
       ELSE IF ExistingReaction(userId, messageId, type) # {}
         THEN /\ last' = [res EXCEPT !.outcome = BadRequestException]
              /\ UNCHANGED calls
         ELSE /\ calls' = [calls EXCEPT ![h] =
                   [NoCall EXCEPT !.op = "addReaction", !.pc = "create",
                      !.userId = userId, !.messageId = messageId,
                      !.type = type]]
              /\ UNCHANGED last
  /\ UNCHANGED <<storeVars, gatewayVars, moreVars>>

\* addReaction: reaction.create, then the message is read back
AddReactionCreate(h) ==
  LET c == calls[h]
      res == [Result("addReaction", c.userId, OK) EXCEPT
                !.messageId = c.messageId, !.type = c.type]
  IN
  /\ c.op = "addReaction" /\ c.pc = "create"
  /\ IF ~ isReactionType(c.type)
       THEN /\ last' = [res EXCEPT !.outcome = PrismaClientValidationError]
            /\ UNCHANGED reactions
       ELSE IF ~ MessageExists(c.messageId)
         THEN /\ last' = [res EXCEPT !.outcome = P2003]
              /\ UNCHANGED reactions
         ELSE IF ReactionUniqueViolation(c.messageId, c.userId, c.type)
           THEN /\ last' = [res EXCEPT !.outcome = P2002]
                /\ UNCHANGED reactions
           ELSE /\ FreeReactionIds # {}
                /\ LET id == CHOOSE i \in FreeReactionIds :
                               \A j \in FreeReactionIds : i <= j
                   IN reactions' = reactions \cup
                        {[id |-> id, messageId |-> c.messageId,
                          userId |-> c.userId, type |-> c.type]}
                /\ last' = res
  /\ calls' = [calls EXCEPT ![h] = NoCall]
  /\ UNCHANGED <<conversations, connections, messages, gatewayVars, moreVars>>

\* removeReaction(userId, messageId, type)
RemoveReaction(userId, messageId, type) ==
  LET res == [Result("removeReaction", userId, OK) EXCEPT
                !.messageId = messageId, !.type = type]
      reaction == FindReaction(userId, messageId, type)
  IN
  /\ IF ~ isReactionType(type)
       THEN /\ last' = [res EXCEPT !.outcome = BadRequestException]
            /\ UNCHANGED reactions
       ELSE IF reaction = {}
         THEN /\ last' = [res EXCEPT !.outcome = NotFoundException]
              /\ UNCHANGED reactions
         ELSE \E found \in reaction :
                /\ reactions' = {r \in reactions : r.id # found.id}
                /\ last' = IF MessageExists(messageId) THEN res
                           ELSE [res EXCEPT !.outcome = NotFoundException]
  /\ UNCHANGED <<conversations, connections, messages, calls, gatewayVars, moreVars>>

\* updateMessageStatus(messageId, status)
UpdateMessageStatus(messageId, status) ==
  LET res == [Result("updateMessageStatus", "", OK) EXCEPT
                !.messageId = messageId, !.status = status]
  IN
  /\ IF ~ MessageExists(messageId)
       THEN /\ last' = [res EXCEPT !.outcome = NotFoundException]
            /\ UNCHANGED messages
       ELSE /\ messages' = [messages EXCEPT ![messageId].status = status]
            /\ last' = res
  /\ UNCHANGED <<conversations, connections, reactions, calls, gatewayVars, moreVars>>

\* markMessageAsRead(messageId)
MarkMessageAsRead(messageId) ==
  LET res == [Result("markMessageAsRead", "", OK) EXCEPT
                !.messageId = messageId, !.status = "READ"]
  IN
  /\ IF ~ MessageExists(messageId)
       THEN /\ last' = [res EXCEPT !.outcome = NotFoundException]
            /\ UNCHANGED messages
       ELSE /\ messages' = [messages EXCEPT ![messageId].isRead = TRUE,
                                            ![messageId].status = "READ"]
            /\ last' = res
  /\ UNCHANGED <<conversations, connections, reactions, calls, gatewayVars, moreVars>>

\* createMessage(conversationId, senderId, content), run without another
\* request in between its store calls
CreateMessage(conversationId, senderId, content) ==
  LET res == [Result("createMessage", senderId, OK) EXCEPT
                !.conversationId = conversationId]
  IN
  /\ IF conversationId \notin ConversationIds
       THEN /\ last' = [res EXCEPT !.outcome = NotFoundException]
            /\ UNCHANGED <<connections, messages>>
       ELSE LET others ==
                  conversations[ConversationIndex(conversationId)].participants
                    \ {senderId}
            IN IF others = {}
                 THEN /\ last' = [res EXCEPT !.outcome = BadRequestException]
                      /\ UNCHANGED <<connections, messages>>
                 ELSE \E otherParticipant \in others :
                   LET found == FindAcceptedBetween(senderId, otherParticipant)
                   IN IF found # {}
                        THEN \E connection \in found :
                          /\ Len(messages) < MaxMessages
                          /\ messages' = Append(messages,
                               NewMessage(conversationId, connection, senderId,
                                          content))
                          /\ last' = [res EXCEPT
                               !.connectionId = connection,
                               !.messageId = Len(messages) + 1,
                               !.status = "SENT", !.pre = TRUE]
                          /\ UNCHANGED connections
                        ELSE IF ConnectionUniqueViolation(senderId,
                                                          otherParticipant)
                          THEN /\ last' = [res EXCEPT !.outcome = P2002]
                               /\ UNCHANGED <<connections, messages>>
                          ELSE /\ Len(connections) < MaxConnections
                               /\ Len(messages) < MaxMessages
                               /\ connections' = Append(connections,
                                    [requesterId |-> senderId,
                                     receiverId |-> otherParticipant,
                                     status |-> "ACCEPTED"])
                               /\ messages' = Append(messages,
                                    NewMessage(conversationId,
                                               Len(connections) + 1, senderId,
                                               content))
                               /\ last' = [res EXCEPT
                                    !.connectionId = Len(connections) + 1,
                                    !.messageId = Len(messages) + 1,
                                    !.status = "SENT"]
  /\ UNCHANGED <<conversations, reactions, calls, gatewayVars, moreVars>>

\* addReaction(userId, dto), run without another request in between its
\* store calls
AddReaction(userId, messageId, type) ==
  LET res == [Result("addReaction", userId, OK) EXCEPT
                !.messageId = messageId, !.type = type,
                !.pre = (ReactionUniqueViolation(messageId, userId, type))]
  IN
  /\ IF ~ MessageExists(messageId)
       THEN /\ last' = [res EXCEPT !.outcome = NotFoundException]
            /\ UNCHANGED reactions
       ELSE IF ExistingReaction(userId, messageId, type) # {}
         THEN /\ last' = [res EXCEPT !.outcome = BadRequestException]
              /\ UNCHANGED reactions
         ELSE IF ~ isReactionType(type)
           THEN /\ last' = [res EXCEPT !.outcome = PrismaClientValidationError]
                /\ UNCHANGED reactions
           ELSE IF ReactionUniqueViolation(messageId, userId, type)
             THEN /\ last' = [res EXCEPT !.outcome = P2002]
                  /\ UNCHANGED reactions
             ELSE /\ FreeReactionIds # {}
                  /\ LET id == CHOOSE i \in FreeReactionIds :
                                 \A j \in FreeReactionIds : i <= j
                     IN reactions' = reactions \cup
                          {[id |-> id, messageId |-> messageId,
                            userId |-> userId, type |-> type]}
                  /\ last' = res
  /\ UNCHANGED <<conversations, connections, messages, calls, gatewayVars, moreVars>>

\* ------------------------------------------------------- WsJwtAuthGuard
\* A handshake: auth.token and the authorization header, each a string given
\* as the list of its space-separated words (<<>> when absent)
NoHandshake == [authToken |-> <<>>, authorization |-> <<>>]

Handshakes ==
  {NoHandshake,
   [authToken |-> <<"Bearer", "jwt-u1">>, authorization |-> <<>>],
   [authToken |-> <<>>, authorization |-> <<"Bearer", "jwt-u1">>],
   [authToken |-> <<"jwt-u1">>, authorization |-> <<>>],
   [authToken |-> <<>>, authorization |-> <<"Basic", "jwt-u1">>],
   [authToken |-> <<"Bearer", "forged">>, authorization |-> <<>>],
   [authToken |-> <<"Bearer", "jwt-ghost">>, authorization |-> <<>>]}

NoToken == ""
NoUser == ""

\* extractTokenFromHeader(client)
extractTokenFromHeader(handshake) ==
  LET auth == IF handshake.authToken # <<>> THEN handshake.authToken
              ELSE handshake.authorization
  IN IF auth = <<>> THEN NoToken
     ELSE IF auth[1] = "Bearer" /\ Len(auth) >= 2 THEN auth[2] ELSE NoToken

\* jwtService.verifyAsync(token): the payload's sub, NoUser when the token
\* does not verify
VerifyJwt(token) ==
  CASE token = "jwt-u1" -> "u1"
    [] token = "jwt-u2" -> "u2"
    [] token = "jwt-u3" -> "u3"
    [] token = "jwt-ghost" -> "ghost"
    [] OTHER -> NoUser

\* canActivate(context): the user put in client.data.user, NoUser when the
\* guard throws WsException('Unauthorized')
canActivate(handshake) ==
  LET token == extractTokenFromHeader(handshake)
      sub == IF token = NoToken THEN NoUser ELSE VerifyJwt(token)
  IN IF sub \in Users THEN sub ELSE NoUser

\* ---------------------------------------------------------- ChatGateway
NoSocket == [state |-> "closed", handshake |-> NoHandshake, user |-> NoUser,
             rooms |-> {}, instance |-> ""]
Sockets == {"s1", "s2"}
\* the server processes a socket may be connected to
Instances == {"X", "Y"}
RoomKeys == {"7"}

UserRoom(userId) == "user:" \o userId
ConversationRoom(conversationId) == "conversation:" \o conversationId

\* usersService.updateOnlineStatus(id, online)
updateOnlineStatus(id, value) == [online EXCEPT ![id] = value]

\* handleConnection(client). The framework calls the lifecycle hooks with the
\* socket itself: guards run for the @SubscribeMessage handlers only, so
\* client.data.user is whatever an earlier guarded event left there, and
\* reading .id of an unset user throws before any effect.
handleConnection(s, client) ==
  IF client.user = NoUser
    THEN /\ sockets' = [sockets EXCEPT ![s] = client]
         /\ UNCHANGED <<online, broadcasts>>
    ELSE /\ online' = updateOnlineStatus(client.user, TRUE)
         /\ sockets' = [sockets EXCEPT ![s] =
              [client EXCEPT !.rooms = @ \cup {UserRoom(client.user)}]]
         /\ broadcasts' = broadcasts \cup
              {[userId |-> client.user, status |-> "online"]}

\* A client opens a socket on /chat: the transport accepts it (no connection
\* middleware is installed) and the gateway's handleConnection runs
Connect(s, handshake, instance) ==
  /\ sockets[s].state = "closed"
  /\ handleConnection(s, [state |-> "connected", handshake |-> handshake,
                          user |-> NoUser, rooms |-> {s},
                          instance |-> instance])
  /\ last' = [Result("connect", NoUser, OK) EXCEPT !.socket = s]
  /\ UNCHANGED <<storeVars, calls, moreVars>>

\* handleDisconnect(client), after the transport has dropped the socket's rooms
handleDisconnect(s) ==
  LET client == sockets[s]
  IN
  /\ client.state = "connected"
  /\ IF client.user = NoUser
       THEN /\ sockets' = [sockets EXCEPT ![s].state = "disconnected",
                                          ![s].rooms = {}]
            /\ UNCHANGED <<online, broadcasts>>
       ELSE /\ online' = updateOnlineStatus(client.user, FALSE)
            /\ sockets' = [sockets EXCEPT ![s].state = "disconnected",
                                          ![s].rooms = {}]
            /\ broadcasts' = broadcasts \cup
                 {[userId |-> client.user, status |-> "offline"]}
  /\ last' = [Result("disconnect", client.user, OK) EXCEPT !.socket = s]
  /\ UNCHANGED <<storeVars, calls, moreVars>>

\* 'conversation:join' behind @UseGuards(WsJwtAuthGuard)
handleJoinConversationRoom(s, conversationId) ==
  LET user == canActivate(sockets[s].handshake)
  IN
  /\ sockets[s].state = "connected"
  /\ IF user = NoUser
       THEN /\ last' = [Result("conversation:join", NoUser, "WsException")
                          EXCEPT !.socket = s]
            /\ UNCHANGED sockets
       ELSE /\ sockets' = [sockets EXCEPT ![s].user = user,
                 ![s].rooms = @ \cup {ConversationRoom(conversationId)}]
            /\ last' = [Result("conversation:join", user, OK)
                          EXCEPT !.socket = s]
  /\ UNCHANGED <<storeVars, calls, online, broadcasts, moreVars>>

\* 'conversation:leave' behind @UseGuards(WsJwtAuthGuard)
handleLeaveConversationRoom(s, conversationId) ==
  LET user == canActivate(sockets[s].handshake)
  IN
  /\ sockets[s].state = "connected"
  /\ IF user = NoUser
       THEN /\ last' = [Result("conversation:leave", NoUser, "WsException")
                          EXCEPT !.socket = s]
            /\ UNCHANGED sockets
       ELSE /\ sockets' = [sockets EXCEPT ![s].user = user,
                 ![s].rooms = @ \ {ConversationRoom(conversationId)}]
            /\ last' = [Result("conversation:leave", user, OK)
                          EXCEPT !.socket = s]
  /\ UNCHANGED <<storeVars, calls, online, broadcasts, moreVars>>

\* AuthService.handleExistingGoogleUser(account, accessToken): a login with
\* a Google account marks the user online
handleExistingGoogleUser(userId) ==
  /\ online' = [online EXCEPT ![userId] = TRUE]
  /\ last' = Result("login", userId, OK)
  /\ UNCHANGED <<storeVars, calls, sockets, broadcasts, moreVars>>

\* AuthService.logout(userId): updateUserOnlineStatus(userId, false), and the
\* user's sessions are deleted
logout(userId) ==
  /\ online' = [online EXCEPT ![userId] = FALSE]
  /\ last' = Result("logout", userId, OK)
  /\ UNCHANGED <<storeVars, calls, sockets, broadcasts, moreVars>>

\* ---------------------------------------------------------- UsersService
\* rows the BlockedUser table of the model holds at most
MaxBlocks == 2

\* the result of parseInt for a string that starts with no digit
NaN == [nan |-> TRUE, value |-> 0]

\* parseInt(str) for the strings the clients of the model send: the number a
\* decimal numeral denotes, NaN for any other string (the users' ids start
\* with a letter)
parseInt(str) ==
  IF \E n \in 0..(MaxBlocks + 1) : NumberToString(n) = str
    THEN [nan |-> FALSE,
          value |-> CHOOSE n \in 0..(MaxBlocks + 1) : NumberToString(n) = str]
    ELSE NaN

\* isUserBlocked(userId, targetUserId) for an existing user: some row of
\* user.blockedUsers has id.toString() === targetUserId
isUserBlocked(userId, targetUserId) ==
  \E blockedUser \in blockedUsers :
    /\ blockedUser.blockedById = userId
    /\ NumberToString(blockedUser.id) = targetUserId

\* UNIQUE INDEX BlockedUser(blockedById, userId), for the row `id` moving to
\* blockedById
BlockedUniqueViolation(id, blockedById, userId) ==
  \E b \in blockedUsers :
    b.id # id /\ b.blockedById = blockedById /\ b.userId = userId

\* blockUser(userId, {blockedUserId}): user.update connecting the BlockedUser
\* row whose id is parseInt(blockedUserId)
blockUser(userId, blockedUserId) ==
  LET res == Result("blockUser", userId, OK)
      id == parseInt(blockedUserId)
      rows == {b \in blockedUsers : ~ id.nan /\ b.id = id.value}
  IN
  /\ IF userId = blockedUserId
       THEN /\ last' = [res EXCEPT !.outcome = BadRequestException]
            /\ UNCHANGED blockedUsers
       ELSE IF id.nan
         THEN /\ last' = [res EXCEPT !.outcome = PrismaClientValidationError]
              /\ UNCHANGED blockedUsers
         ELSE IF rows = {}
           THEN /\ last' = [res EXCEPT !.outcome = NotFoundException]
                /\ UNCHANGED blockedUsers
           ELSE \E row \in rows :
                  IF BlockedUniqueViolation(row.id, userId, row.userId)
                    THEN /\ last' = [res EXCEPT !.outcome = P2002]
                         /\ UNCHANGED blockedUsers
                    ELSE /\ blockedUsers' = (blockedUsers \ {row}) \cup
                              {[row EXCEPT !.blockedById = userId]}
                         /\ last' = res
  /\ UNCHANGED <<storeVars, calls, gatewayVars, inbox, chatCredits>>

\* ------------------------------------------------- ChatGateway: the events
\* client.user, as the conversation-first handlers and @CurrentUser() read
\* it: the guard stores the user in client.data.user, and no code gives the
\* socket a `user` property
ClientUser(s) == NoUser

\* the socket adapter the application runs with: bootstrap() constructs a
\* RedisIoAdapter and connects it, and never calls app.useWebSocketAdapter
InstalledAdapter == "IoAdapter"

\* whether an emit issued on instance `from` reaches the sockets of `to`
Reaches(from, to) == InstalledAdapter = "RedisIoAdapter" \/ from = to

\* server.to(room).emit(...) issued on instance `from`: the sockets it reaches
Receivers(from, room) ==
  {t \in Sockets : /\ sockets[t].state = "connected"
                   /\ room \in sockets[t].rooms
                   /\ Reaches(from, sockets[t].instance)}

Deliver(receivers, events) ==
  [t \in Sockets |-> IF t \in receivers THEN inbox[t] \cup events
                     ELSE inbox[t]]

Event(name, room, messageId, content) ==
  [event |-> name, room |-> room, messageId |-> messageId,
   content |-> content]

\* the guard refusing an event: WsException('Unauthorized') to the client
Refuse(s, event) ==
  /\ last' = [Result(event, NoUser, "WsException") EXCEPT
                !.socket = s, !.ack = "exception"]
  /\ UNCHANGED <<storeVars, calls, gatewayVars, moreVars>>

\* 'message:send': sendMessage is awaited outside any try, then the message
\* is emitted to the room conversation:<connection id>
handleSendMessage(s, connectionId, content) ==
  LET user == canActivate(sockets[s].handshake)
      connection == FindAcceptedConnection(connectionId, user)
      conversationId == NumberToString(connectionId)
      room == ConversationRoom(conversationId)
      res == [Result("message:send", user, OK) EXCEPT
                !.socket = s, !.connectionId = connectionId,
                !.conversationId = conversationId]
  IN
  /\ sockets[s].state = "connected"
  /\ IF user = NoUser
       THEN Refuse(s, "message:send")
       ELSE
         /\ sockets' = [sockets EXCEPT ![s].user = user]
         /\ IF connection = {}
              THEN /\ last' = [res EXCEPT !.outcome = NotFoundException,
                                          !.ack = "exception"]
                   /\ UNCHANGED <<messages, inbox>>
              ELSE IF ~ MessageConversationFk(conversationId)
                        \/ ~ MessageConnectionFk(connectionId)
                THEN /\ last' = [res EXCEPT !.outcome = P2003,
                                            !.ack = "exception"]
                     /\ UNCHANGED <<messages, inbox>>
                ELSE /\ Len(messages) < MaxMessages
                     /\ messages' = Append(messages,
                          NewMessage(conversationId, connectionId, user,
                                     content))
                     /\ inbox' = Deliver(
                          Receivers(sockets[s].instance, room),
                          {Event("message:new", room, Len(messages) + 1,
                                 content),
                           Event("conversation:updated", room,
                                 Len(messages) + 1, content)})
                     /\ last' = [res EXCEPT !.messageId = Len(messages) + 1,
                                            !.status = "SENT",
                                            !.ack = "none"]
         /\ UNCHANGED <<conversations, connections, reactions, calls,
                        online, broadcasts, blockedUsers, chatCredits>>

\* 'user:activity:update': emitted to the room conversation:<id>
handleUserActivity(s, conversationId) ==
  LET user == canActivate(sockets[s].handshake)
      room == ConversationRoom(conversationId)
  IN
  /\ sockets[s].state = "connected"
  /\ IF user = NoUser
       THEN Refuse(s, "user:activity:update")
       ELSE /\ sockets' = [sockets EXCEPT ![s].user = user]
            /\ inbox' = Deliver(Receivers(sockets[s].instance, room),
                                {Event("user:activity", room, 0, user)})
            /\ last' = [Result("user:activity:update", user, OK) EXCEPT
                          !.socket = s, !.conversationId = conversationId,
                          !.ack = "none"]
            /\ UNCHANGED <<storeVars, calls, online, broadcasts,
                           blockedUsers, chatCredits>>

\* markMessagesAsSeen(connectionId, userId): the connection is looked up and
\* a fixed {success: true, updatedCount: 0} is returned
MarkMessagesAsSeen(connectionId, userId) ==
  LET connection == FindAcceptedConnection(connectionId, userId)
      res == [Result("markMessagesAsSeen", userId, OK) EXCEPT
                !.connectionId = connectionId, !.updatedCount = 0]
  IN
  /\ last' = IF connection = {}
               THEN [res EXCEPT !.outcome = NotFoundException]
               ELSE res
  /\ UNCHANGED <<storeVars, calls, gatewayVars, moreVars>>

\* 'message:mark-seen': markMessagesAsSeen is awaited outside any try, then
\* 'message:seen' is emitted to the room conversation:<connection id>
handleMarkSeen(s, connectionId) ==
  LET user == canActivate(sockets[s].handshake)
      connection == FindAcceptedConnection(connectionId, user)
      room == ConversationRoom(NumberToString(connectionId))
      res == [Result("message:mark-seen", user, OK) EXCEPT
                !.socket = s, !.connectionId = connectionId]
  IN
  /\ sockets[s].state = "connected"
  /\ IF user = NoUser
       THEN Refuse(s, "message:mark-seen")
       ELSE
         /\ sockets' = [sockets EXCEPT ![s].user = user]
         /\ IF connection = {}
              THEN /\ last' = [res EXCEPT !.outcome = NotFoundException,
                                          !.ack = "exception"]
                   /\ UNCHANGED inbox
              ELSE /\ inbox' = Deliver(
                        Receivers(sockets[s].instance, room),
                        {Event("message:seen", room, 0, user)})
                   /\ last' = [res EXCEPT !.ack = "none"]
         /\ UNCHANGED <<storeVars, calls, online, broadcasts, blockedUsers, chatCredits>>

\* a room name that is the name of another room with its prefix changed
ConnectionRoom_AsConversationRoom(connectionId) ==
  "conversation:" \o NumberToString(connectionId)

\* the room the status and read events are emitted to
ConnectionRoom(connectionId) == "connection_" \o NumberToString(connectionId)

\* 'message.status': updateMessageStatus inside try/catch, the new status
\* emitted to the room connection_<connection id>
handleMessageStatus(s, messageId, status) ==
  LET user == canActivate(sockets[s].handshake)
      res == [Result("message.status", user, OK) EXCEPT
                !.socket = s, !.messageId = messageId, !.status = status]
  IN
  /\ sockets[s].state = "connected"
  /\ IF user = NoUser
       THEN Refuse(s, "message.status")
       ELSE
         /\ sockets' = [sockets EXCEPT ![s].user = user]
         /\ IF ~ MessageExists(messageId)
              THEN /\ last' = [res EXCEPT !.outcome = NotFoundException,
                                          !.ack = "failure"]
                   /\ UNCHANGED <<messages, inbox>>
              ELSE LET room == ConnectionRoom(messages[messageId].connectionId)
                   IN
                   /\ messages' =
                        [messages EXCEPT ![messageId].status = status]
                   /\ inbox' = Deliver(
                        Receivers(sockets[s].instance, room),
                        {Event("message.status", room, messageId, status)})
                   /\ last' = [res EXCEPT !.ack = "success"]
         /\ UNCHANGED <<conversations, connections, reactions, calls,
                        online, broadcasts, blockedUsers, chatCredits>>

\* 'message.read': markMessageAsRead inside try/catch
handleMessageRead(s, messageId) ==
  LET user == canActivate(sockets[s].handshake)
      res == [Result("message.read", user, OK) EXCEPT
                !.socket = s, !.messageId = messageId, !.status = "READ"]
  IN
  /\ sockets[s].state = "connected"
  /\ IF user = NoUser
       THEN Refuse(s, "message.read")
       ELSE
         /\ sockets' = [sockets EXCEPT ![s].user = user]
         /\ IF ~ MessageExists(messageId)
              THEN /\ last' = [res EXCEPT !.outcome = NotFoundException,
                                          !.ack = "failure"]
                   /\ UNCHANGED <<messages, inbox>>
              ELSE LET room == ConnectionRoom(messages[messageId].connectionId)
                   IN
                   /\ messages' = [messages EXCEPT
                        ![messageId].isRead = TRUE,
                        ![messageId].status = "READ"]
                   /\ inbox' = Deliver(
                        Receivers(sockets[s].instance, room),
                        {Event("message.read", room, messageId, "READ")})
                   /\ last' = [res EXCEPT !.ack = "success"]
         /\ UNCHANGED <<conversations, connections, reactions, calls,
                        online, broadcasts, blockedUsers, chatCredits>>

\* the exception an event handler lets escape when it reads .id of an unset
\* client.user
TypeError == "TypeError"

\* 'createConversation': the block checks in both directions, then
\* createConversation([client.user.id, participantId]), the socket joins the
\* room named by the conversation id, and 'conversationCreated' goes to the
\* room named by the participant id. Nothing is caught.
handleCreateConversation(s, participantId) ==
  LET user == canActivate(sockets[s].handshake)
      caller == ClientUser(s)
      res == [Result("createConversation", caller, OK) EXCEPT !.socket = s]
      id == ConversationId(Len(conversations) + 1)
  IN
  /\ sockets[s].state = "connected"
  /\ IF user = NoUser
       THEN Refuse(s, "createConversation")
       ELSE IF caller = NoUser
         THEN /\ sockets' = [sockets EXCEPT ![s].user = user]
              /\ last' = [res EXCEPT !.outcome = TypeError,
                                     !.ack = "exception"]
              /\ UNCHANGED <<storeVars, calls, online, broadcasts, moreVars>>
         ELSE IF caller \notin Users \/ participantId \notin Users
           THEN /\ sockets' = [sockets EXCEPT ![s].user = user]
                /\ last' = [res EXCEPT !.outcome = NotFoundException,
                                       !.ack = "exception"]
                /\ UNCHANGED <<storeVars, calls, online, broadcasts,
                               moreVars>>
           ELSE IF isUserBlocked(caller, participantId)
                     \/ isUserBlocked(participantId, caller)
             THEN /\ sockets' = [sockets EXCEPT ![s].user = user]
                  /\ last' = [res EXCEPT !.outcome = "blocked",
                                         !.ack = "error"]
                  /\ UNCHANGED <<storeVars, calls, online, broadcasts,
                                 moreVars>>
             ELSE /\ Len(conversations) < MaxConversations
                  /\ conversations' = Append(conversations,
                       [participants |-> {caller, participantId},
                        lastMessageId |-> 0])
                  /\ sockets' = [sockets EXCEPT ![s].user = user,
                                                ![s].rooms = @ \cup {id}]
                  /\ inbox' = Deliver(
                       Receivers(sockets[s].instance, participantId) \ {s},
                       {Event("conversationCreated", participantId, 0, id)})
                  /\ last' = [res EXCEPT !.conversationId = id,
                                         !.ack = "value"]
                  /\ UNCHANGED <<connections, messages, reactions, calls,
                                 online, broadcasts, blockedUsers, chatCredits>>

\* createMessage(conversationId, senderId, content) as a function of the
\* store: the outcomes it can have, each with the store it leaves
CreateMessageResults(conversationId, senderId, content) ==
  LET unchanged(outcome) ==
        [outcome |-> outcome, connections |-> connections,
         messages |-> messages]
  IN
  IF conversationId \notin ConversationIds
    THEN {unchanged(NotFoundException)}
    ELSE
      LET others ==
            conversations[ConversationIndex(conversationId)].participants
              \ {senderId}
          each(otherParticipant) ==
            LET found == FindAcceptedBetween(senderId, otherParticipant)
            IN IF found # {}
                 THEN {[outcome |-> OK, connections |-> connections,
                        messages |-> Append(messages,
                          NewMessage(conversationId, connection, senderId,
                                     content))] : connection \in found}
                 ELSE IF ConnectionUniqueViolation(senderId,
                                                   otherParticipant)
                   THEN {unchanged(P2002)}
                   ELSE {[outcome |-> OK,
                          connections |-> Append(connections,
                            [requesterId |-> senderId,
                             receiverId |-> otherParticipant,
                             status |-> "ACCEPTED"]),
                          messages |-> Append(messages,
                            NewMessage(conversationId, Len(connections) + 1,
                                       senderId, content))]}
      IN IF others = {} THEN {unchanged(BadRequestException)}
         ELSE UNION {each(otherParticipant) : otherParticipant \in others}

\* 'sendMessage' (conversation-first): getConversation, then
\* createMessage(conversationId, client.user.id, content), then 'newMessage'
\* to the room named by each other participant's id. Only the missing
\* conversation is answered with {error}; nothing is caught.
handleMessage(s, conversationId, content) ==
  LET user == canActivate(sockets[s].handshake)
      caller == ClientUser(s)
      res == [Result("sendMessage event", caller, OK) EXCEPT
                !.socket = s, !.conversationId = conversationId]
  IN
  /\ sockets[s].state = "connected"
  /\ IF user = NoUser
       THEN Refuse(s, "sendMessage event")
       ELSE
         /\ sockets' = [sockets EXCEPT ![s].user = user]
         /\ IF conversationId \notin ConversationIds
              THEN /\ last' = [res EXCEPT !.outcome = NotFoundException,
                                          !.ack = "error"]
                   /\ UNCHANGED <<connections, messages, inbox>>
              ELSE IF caller = NoUser
                THEN /\ last' = [res EXCEPT !.outcome = TypeError,
                                            !.ack = "exception"]
                     /\ UNCHANGED <<connections, messages, inbox>>
                ELSE \E r \in CreateMessageResults(conversationId, caller,
                                                   content) :
                  /\ Len(r.connections) <= MaxConnections
                  /\ Len(r.messages) <= MaxMessages
                  /\ connections' = r.connections
                  /\ messages' = r.messages
                  /\ IF r.outcome # OK
                       THEN /\ last' = [res EXCEPT !.outcome = r.outcome,
                                                   !.ack = "exception"]
                            /\ UNCHANGED inbox
                       ELSE /\ inbox' = Deliver(
                                 UNION {Receivers(sockets[s].instance, p) :
                                   p \in conversations[ConversationIndex(
                                     conversationId)].participants
                                       \ {caller}} \ {s},
                                 {Event("newMessage", conversationId,
                                        Len(r.messages), content)})
                            /\ last' = [res EXCEPT
                                 !.messageId = Len(r.messages),
                                 !.status = "SENT", !.ack = "value"]
         /\ UNCHANGED <<conversations, reactions, calls, online,
                        broadcasts, blockedUsers, chatCredits>>

\* 'message.reaction': addReaction(user.id, ...) inside try/catch, with user
\* the @CurrentUser() of the socket; the reaction is emitted to the room
\* connection_<connection id>
handleMessageReaction(s, messageId, type) ==
  LET user == canActivate(sockets[s].handshake)
      caller == ClientUser(s)
      res == [Result("message.reaction", caller, OK) EXCEPT
                !.socket = s, !.messageId = messageId, !.type = type]
      failure(outcome) ==
        /\ last' = [res EXCEPT !.outcome = outcome, !.ack = "failure"]
        /\ UNCHANGED <<reactions, inbox>>
  IN
  /\ sockets[s].state = "connected"
  /\ IF user = NoUser
       THEN Refuse(s, "message.reaction")
       ELSE
         /\ sockets' = [sockets EXCEPT ![s].user = user]
         /\ IF caller = NoUser THEN failure(TypeError)
            ELSE IF ~ MessageExists(messageId)
              THEN failure(NotFoundException)
            ELSE IF ExistingReaction(caller, messageId, type) # {}
              THEN failure(BadRequestException)
            ELSE IF ~ isReactionType(type)
              THEN failure(PrismaClientValidationError)
            ELSE
              LET room == ConnectionRoom(messages[messageId].connectionId)
                  id == CHOOSE i \in FreeReactionIds :
                          \A j \in FreeReactionIds : i <= j
              IN
              /\ FreeReactionIds # {}
              /\ reactions' = reactions \cup
                   {[id |-> id, messageId |-> messageId, userId |-> caller,
                     type |-> type]}
              /\ inbox' = Deliver(
                   Receivers(sockets[s].instance, room),
                   {Event("message.reaction", room, messageId, type)})
              /\ last' = [res EXCEPT !.ack = "success"]
         /\ UNCHANGED <<conversations, connections, messages, calls,
                        online, broadcasts, blockedUsers, chatCredits>>

\* 'message.reaction.remove': removeReaction(user.id, ...) inside try/catch
handleMessageReactionRemove(s, messageId, type) ==
  LET user == canActivate(sockets[s].handshake)
      caller == ClientUser(s)
      res == [Result("message.reaction.remove", caller, OK) EXCEPT
                !.socket = s, !.messageId = messageId, !.type = type]
      failure(outcome) ==
        /\ last' = [res EXCEPT !.outcome = outcome, !.ack = "failure"]
        /\ UNCHANGED <<reactions, inbox>>
  IN
  /\ sockets[s].state = "connected"
  /\ IF user = NoUser
       THEN Refuse(s, "message.reaction.remove")
       ELSE
         /\ sockets' = [sockets EXCEPT ![s].user = user]
         /\ IF caller = NoUser THEN failure(TypeError)
            ELSE IF ~ isReactionType(type)
              THEN failure(BadRequestException)
            ELSE IF FindReaction(caller, messageId, type) = {}
                      \/ ~ MessageExists(messageId)
              THEN failure(NotFoundException)
            ELSE
              LET room == ConnectionRoom(messages[messageId].connectionId)
              IN
              /\ reactions' =
                   reactions \ FindReaction(caller, messageId, type)
              /\ inbox' = Deliver(
                   Receivers(sockets[s].instance, room),
                   {Event("message.reaction.remove", room, messageId, type)})
              /\ last' = [res EXCEPT !.ack = "success"]
         /\ UNCHANGED <<conversations, connections, messages, calls,
                        online, broadcasts, blockedUsers, chatCredits>>

\* 'joinConversation': getConversation, the participant test on
\* client.user.id, the block checks, then the socket joins the room named by
\* the conversation id. Nothing is caught.
handleJoinConversationParticipant(s, conversationId) ==
  LET user == canActivate(sockets[s].handshake)
      caller == ClientUser(s)
      res == [Result("joinConversation", caller, OK) EXCEPT
                !.socket = s, !.conversationId = conversationId]
  IN
  /\ sockets[s].state = "connected"
  /\ IF user = NoUser
       THEN Refuse(s, "joinConversation")
       ELSE
         /\ IF conversationId \notin ConversationIds
              THEN /\ last' = [res EXCEPT !.outcome = NotFoundException,
                                          !.ack = "error"]
                   /\ sockets' = [sockets EXCEPT ![s].user = user]
              ELSE
                LET participants ==
                      conversations[ConversationIndex(conversationId)]
                        .participants
                IN IF caller = NoUser
                     THEN /\ last' = [res EXCEPT !.outcome = TypeError,
                                                 !.ack = "exception"]
                          /\ sockets' = [sockets EXCEPT ![s].user = user]
                     ELSE IF caller \notin participants
                       THEN /\ last' = [res EXCEPT
                                 !.outcome = "not a participant",
                                 !.ack = "error"]
                            /\ sockets' = [sockets EXCEPT ![s].user = user]
                       ELSE IF \E p \in participants \ {caller} :
                                 \/ isUserBlocked(caller, p)
                                 \/ isUserBlocked(p, caller)
                         THEN /\ last' = [res EXCEPT !.outcome = "blocked",
                                                     !.ack = "error"]
                              /\ sockets' =
                                   [sockets EXCEPT ![s].user = user]
                         ELSE /\ last' = [res EXCEPT !.ack = "success"]
                              /\ sockets' = [sockets EXCEPT
                                   ![s].user = user,
                                   ![s].rooms = @ \cup {conversationId}]
         /\ UNCHANGED <<storeVars, calls, online, broadcasts, moreVars>>

\* 'leaveConversation': the socket leaves the room named by the id sent
handleLeaveConversationParticipant(s, conversationId) ==
  LET user == canActivate(sockets[s].handshake)
  IN
  /\ sockets[s].state = "connected"
  /\ IF user = NoUser
       THEN Refuse(s, "leaveConversation")
       ELSE /\ sockets' = [sockets EXCEPT ![s].user = user,
                                          ![s].rooms = @ \ {conversationId}]
            /\ last' = [Result("leaveConversation", user, OK) EXCEPT
                          !.socket = s, !.conversationId = conversationId,
                          !.ack = "success"]
            /\ UNCHANGED <<storeVars, calls, online, broadcasts, moreVars>>

\* 'conversation:join' arriving on a socket: WsJwtAuthGuard.canActivate
\* starts, refuses a socket without a valid token, and is otherwise
\* suspended in prisma.user.findUnique
JoinConversationRoomGuard(h, s, conversationId) ==
  LET user == canActivate(sockets[s].handshake)
  IN
  /\ sockets[s].state = "connected"
  /\ calls[h].op = "idle"
  /\ IF user = NoUser
       THEN Refuse(s, "conversation:join")
       ELSE /\ calls' = [calls EXCEPT ![h] =
                 [NoCall EXCEPT !.op = "conversation:join", !.pc = "guard",
                    !.userId = user, !.socket = s,
                    !.conversationId = conversationId]]
            /\ UNCHANGED <<storeVars, last, gatewayVars, moreVars>>

\* the guard's findUnique resolves: client.data.user is set and
\* handleJoinConversationRoom runs client.join, which adds the socket to the
\* room in the adapter whatever the socket's state has become
JoinConversationRoomResume(h) ==
  LET c == calls[h]
  IN
  /\ c.op = "conversation:join" /\ c.pc = "guard"
  /\ sockets' = [sockets EXCEPT ![c.socket].user = c.userId,
       ![c.socket].rooms = @ \cup {ConversationRoom(c.conversationId)}]
  /\ last' = [Result("conversation:join", c.userId, OK) EXCEPT
                !.socket = c.socket, !.conversationId = c.conversationId]
  /\ calls' = [calls EXCEPT ![h] = NoCall]
  /\ UNCHANGED <<storeVars, online, broadcasts, moreVars>>

\* ----------------------------------------------------- ChatCreditsService
\* config.dailyReward.base and config.minTransferAmount
dailyRewardBase == 10
minTransferAmount == 5

KarmaLevel == {"BRONZE", "SILVER", "GOLD", "PLATINUM", "DIAMOND"}

\* Math.floor(baseAmount * karmaMultiplier[karmaLevel]), the multipliers
\* being 1, 1.2, 1.5, 2 and 3
DailyAmount(karmaLevel) ==
  CASE karmaLevel = "BRONZE" -> dailyRewardBase
    [] karmaLevel = "SILVER" -> (dailyRewardBase * 12) \div 10
    [] karmaLevel = "GOLD" -> (dailyRewardBase * 15) \div 10
    [] karmaLevel = "PLATINUM" -> dailyRewardBase * 2
    [] karmaLevel = "DIAMOND" -> dailyRewardBase * 3

\* FOREIGN KEY ChatCredits(userId) REFERENCES User(id)
ChatCreditsUserFk(userId) == userId \in Users

\* awardDailyCredits(userId, karmaLevel): getOrCreateCredits, null when the
\* reward of the day was given, else the balance is incremented
awardDailyCredits(userId, karmaLevel) ==
  LET res == Result("awardDailyCredits", userId, OK)
      credits == chatCredits[userId]
  IN
  /\ IF credits.exists /\ credits.lastDailyReward
       THEN /\ last' = [res EXCEPT !.outcome = "null"]
            /\ UNCHANGED chatCredits
       ELSE /\ chatCredits' = [chatCredits EXCEPT ![userId] =
                 [exists |-> TRUE,
                  balance |-> credits.balance + DailyAmount(karmaLevel),
                  lastDailyReward |-> TRUE]]
            /\ last' = res
  /\ UNCHANGED <<storeVars, calls, gatewayVars, blockedUsers, inbox>>

\* transferCredits(fromUserId, toUserId, amount): null below the minimum
\* amount, else spendCredits and addCredits are called in turn, each in a
\* transaction of its own (the outer transaction's client is not used)
transferCredits(h, fromUserId, toUserId, amount) ==
  /\ calls[h].op = "idle"
  /\ IF amount < minTransferAmount
       THEN /\ last' = [Result("transferCredits", fromUserId, "null") EXCEPT
                          !.updatedCount = amount]
            /\ UNCHANGED calls
       ELSE /\ calls' = [calls EXCEPT ![h] =
                 [NoCall EXCEPT !.op = "transferCredits", !.pc = "spendFind",
                    !.userId = fromUserId, !.other = toUserId,
                    !.amount = amount]]
            /\ UNCHANGED last
  /\ UNCHANGED <<storeVars, gatewayVars, moreVars>>

\* spendCredits: chatCredits.findUnique, null when the row is missing or the
\* balance read is below the amount
spendCreditsFind(h) ==
  LET c == calls[h]
      credits == chatCredits[c.userId]
  IN
  /\ c.op = "transferCredits" /\ c.pc = "spendFind"
  /\ IF ~ credits.exists \/ credits.balance < c.amount
       THEN /\ last' = [Result("transferCredits", c.userId, "null") EXCEPT
                          !.updatedCount = c.amount]
            /\ calls' = [calls EXCEPT ![h] = NoCall]
       ELSE /\ calls' = [calls EXCEPT ![h].pc = "spendUpdate",
                                      ![h].balance = credits.balance]
            /\ UNCHANGED last
  /\ UNCHANGED <<storeVars, gatewayVars, moreVars>>

\* spendCredits: chatCredits.update({balance: {decrement: amount}}) on the
\* row as it is when the update runs, and the transaction commits
spendCreditsUpdate(h) ==
  LET c == calls[h]
  IN
  /\ c.op = "transferCredits" /\ c.pc = "spendUpdate"
  /\ chatCredits' = [chatCredits EXCEPT ![c.userId].balance = @ - c.amount]
  /\ calls' = [calls EXCEPT ![h].pc = "addCredits"]
  /\ UNCHANGED <<storeVars, last, gatewayVars, blockedUsers, inbox>>

\* addCredits(toUserId, amount): chatCredits.upsert, which creates the
\* receiver's row or increments its balance
addCredits(h) ==
  LET c == calls[h]
      res == [Result("transferCredits", c.userId, OK) EXCEPT
                !.updatedCount = c.amount]
  IN
  /\ c.op = "transferCredits" /\ c.pc = "addCredits"
  /\ IF ~ ChatCreditsUserFk(c.other)
       THEN /\ last' = [res EXCEPT !.outcome = P2003]
            /\ UNCHANGED chatCredits
       ELSE /\ chatCredits' = [chatCredits EXCEPT ![c.other] =
                 [@ EXCEPT !.exists = TRUE, !.balance = @ + c.amount]]
            /\ last' = res
  /\ calls' = [calls EXCEPT ![h] = NoCall]
  /\ UNCHANGED <<storeVars, gatewayVars, blockedUsers, inbox>>

\* -------------------------------------------------------- HTTP AuthGuard
\* An Authorization header is the list request.headers.authorization
\* .split(' ') gives, <<>> when the header is absent
NoHeader == <<>>

\* the tokens a request may carry; "" is what split leaves between two spaces
Tokens == {"jwt-u1", "jwt-u2", "jwt-ghost", "expired-u1", "forged", ""}

Headers ==
  {NoHeader, <<"Bearer">>}
    \cup {<<"Bearer", t>> : t \in Tokens}
    \cup {<<"Basic", t>> : t \in Tokens}
    \cup {<<"bearer", t>> : t \in Tokens}
    \cup {<<t>> : t \in Tokens \ {""}}
    \cup {<<"Bearer", t, "x">> : t \in Tokens}

\* an extraction that ignores the scheme
AuthGuard_extractTokenFromHeader_AnyScheme(authorization) ==
  IF Len(authorization) >= 2 THEN authorization[2] ELSE NoToken

\* AuthGuard.extractTokenFromHeader(request): [type, token] of the split
\* header, the token when type is 'Bearer', else undefined
AuthGuard_extractTokenFromHeader(authorization) ==
  IF Len(authorization) >= 2 /\ authorization[1] = "Bearer"
    THEN authorization[2]
    ELSE NoToken

\* jwtService.verifyAsync(token): the payload, or the name of the error
verifyAsync(token) ==
  CASE token = "jwt-u1" -> [error |-> "", sub |-> "u1"]
    [] token = "jwt-u2" -> [error |-> "", sub |-> "u2"]
    [] token = "jwt-ghost" -> [error |-> "", sub |-> "ghost"]
    [] token = "expired-u1" -> [error |-> "TokenExpiredError", sub |-> NoUser]
    [] OTHER -> [error |-> "JsonWebTokenError", sub |-> NoUser]

\* authService.validateUser(payload): UnauthorizedException when no user has
\* the payload's sub
validateUser(payload) ==
  IF payload.sub \in Users THEN [error |-> "", sub |-> payload.sub]
  ELSE [error |-> "UnauthorizedException", sub |-> NoUser]

\* AuthGuard.canActivate(context): the message of the UnauthorizedException
\* thrown, or OK with request.user holding the payload's sub
AuthGuard_canActivate(authorization) ==
  LET token == AuthGuard_extractTokenFromHeader(authorization)
      payload == verifyAsync(token)
      user == IF payload.error = "" THEN validateUser(payload) ELSE payload
      res == [Result("AuthGuard", NoUser, OK) EXCEPT
                !.header = authorization]
  IN
  /\ last' =
       IF token = NoToken
         THEN [res EXCEPT !.outcome = "Authentication token is missing"]
         ELSE IF user.error = "TokenExpiredError"
           THEN [res EXCEPT !.outcome = "Access token has expired"]
           ELSE IF user.error # ""
             THEN [res EXCEPT !.outcome = "Invalid authentication token"]
             ELSE [res EXCEPT !.userId = user.sub]
  /\ UNCHANGED <<storeVars, calls, gatewayVars, moreVars>>

\* ------------------------------------------------------------------ Init
Init ==
  /\ conversations = <<>>
  /\ connections = <<>>
  /\ messages = <<>>
  /\ reactions = {}
  /\ calls = [h \in Handlers |-> NoCall]
  /\ last = NoResult
  /\ online = [u \in Users |-> FALSE]
  /\ sockets = [s \in Sockets |-> NoSocket]
  /\ broadcasts = {}
  /\ blockedUsers = {}
  /\ inbox = [s \in Sockets |-> {}]
  /\ chatCredits = [u \in Users |-> NoCredits]

\* ids the clients send: those the store can hold within the bounds
ConversationInputs == {ConversationId(i) : i \in 1..MaxConversations}
ConnectionInputs == 1..MaxConnections
MessageInputs == 1..MaxMessages
\* the message ids reactions are sent for: two messages and an absent one
ReactedMessages == {1, 2, MaxMessages + 1}

\* ------------------------------------------------------------------ Spec
\* Conversations, connections and the two send paths
Next ==
  \/ \E v \in {"u1", "u2"} : CreateConversation("u1", v)
  \/ \E cv \in ConversationInputs, u \in {"u1", "u2"}, t \in Contents :
       CreateMessage(cv, u, t)
  \/ \E c \in ConnectionInputs, u \in Users, t \in Contents :
       SendMessage(c, u, t)
  \/ \E c \in ConnectionInputs, st \in ConnectionStatus :
       UpdateConnectionStatus(c, st)
  \/ \E c \in ConnectionInputs, u \in {"u1", "u2"} :
       MarkMessagesAsSeen(c, u)

Spec == Init /\ [][Next]_vars

\* ---------------------------------------------------------- SpecReaction
\* Reactions on the messages of one conversation
ReactionNext ==
  \/ CreateConversation("u1", "u2")
  \/ \E cv \in ConversationInputs, t \in Contents : CreateMessage(cv, "u1", t)
  \/ \E u \in {"u1", "u2"}, m \in ReactedMessages, t \in ReactionInputs :
       AddReaction(u, m, t)
  \/ \E u \in {"u1", "u2"}, m \in ReactedMessages, t \in ReactionInputs :
       RemoveReaction(u, m, t)

SpecReaction == Init /\ [][ReactionNext]_vars

\* ------------------------------------------------------------ SpecStatus
\* Status and read marks of the messages of one conversation
StatusNext ==
  \/ CreateConversation("u1", "u2")
  \/ \E cv \in ConversationInputs, u \in {"u1", "u2"}, t \in Contents :
       CreateMessage(cv, u, t)
  \/ \E c \in ConnectionInputs, u \in {"u1", "u2"}, t \in Contents :
       SendMessage(c, u, t)
  \/ \E m \in MessageInputs, st \in MessageStatus : UpdateMessageStatus(m, st)
  \/ \E m \in MessageInputs : MarkMessageAsRead(m)

SpecStatus == Init /\ [][StatusNext]_vars

\* -------------------------------------------------------------- SpecRace
\* Two handlers suspended between the store calls of createMessage and of
\* addReaction
RaceNext ==
  \/ CreateConversation("u1", "u2")
  \/ \E h \in Handlers, cv \in ConversationInputs, u \in {"u1", "u2"},
        t \in Contents :
       CreateMessageFindConversation(h, cv, u, t)
  \/ \E h \in Handlers : CreateMessageFindConnection(h)
  \/ \E h \in Handlers : CreateMessageCreateConnection(h)
  \/ \E h \in Handlers : CreateMessageCreateMessage(h)
  \/ \E h \in Handlers, u \in {"u1", "u2"}, m \in MessageInputs,
        t \in {"LIKE"} :
       AddReactionFindMessage(h, u, m, t)
  \/ \E h \in Handlers : AddReactionCreate(h)

SpecRace == Init /\ [][RaceNext]_vars

\* ----------------------------------------------------------- SpecGateway
\* Sockets of the /chat namespace: connect, guarded events, disconnect
GatewayNext ==
  \/ \E s \in Sockets, hs \in Handshakes, i \in {"X"} : Connect(s, hs, i)
  \/ \E s \in Sockets : handleDisconnect(s)
  \/ \E s \in Sockets, k \in RoomKeys : handleJoinConversationRoom(s, k)
  \/ \E s \in Sockets, k \in RoomKeys : handleLeaveConversationRoom(s, k)
  \/ \E u \in {"u1"} : handleExistingGoogleUser(u)
  \/ \E u \in {"u1"} : logout(u)

SpecGateway == Init /\ [][GatewayNext]_vars

\* ------------------------------------------------------------- SpecBlock
\* Conversations and messages between users with rows in the BlockedUser
\* table. No operation of the service inserts such a row (blockUser connects
\* an existing one), so the table the service finds is an input.
BlockParties == {"u1", "u2"}

BlockTables ==
  {t \in SUBSET [id : 1..MaxBlocks, blockedById : BlockParties,
                 userId : BlockParties] :
     /\ \A a, b \in t : a.id = b.id => a = b
     /\ \A a, b \in t :
          (a.blockedById = b.blockedById /\ a.userId = b.userId) => a = b
     /\ \A a \in t : a.blockedById # a.userId}

InitBlock ==
  /\ conversations = <<>>
  /\ connections = <<>>
  /\ messages = <<>>
  /\ reactions = {}
  /\ calls = [h \in Handlers |-> NoCall]
  /\ last = NoResult
  /\ online = [u \in Users |-> FALSE]
  /\ sockets = [s \in Sockets |-> NoSocket]
  /\ broadcasts = {}
  /\ blockedUsers \in BlockTables
  /\ inbox = [s \in Sockets |-> {}]
  /\ chatCredits = [u \in Users |-> NoCredits]

\* the blockedUserId values sent: a user id, or the numeral of a row id
BlockInputs == {"u2"} \cup {NumberToString(n) : n \in 1..MaxBlocks}

BearerU1 == [authToken |-> <<"Bearer", "jwt-u1">>, authorization |-> <<>>]
BearerU2 == [authToken |-> <<"Bearer", "jwt-u2">>, authorization |-> <<>>]
BearerU3 == [authToken |-> <<"Bearer", "jwt-u3">>, authorization |-> <<>>]

BlockNext ==
  \/ \E b \in BlockInputs : blockUser("u1", b)
  \/ CreateConversation("u1", "u2")
  \/ \E cv \in ConversationInputs, u \in BlockParties, t \in Contents :
       CreateMessage(cv, u, t)
  \/ \E c \in ConnectionInputs, t \in Contents : SendMessage(c, "u1", t)
  \/ \E hs \in {NoHandshake, BearerU1} : Connect("s1", hs, "X")
  \/ handleCreateConversation("s1", "u2")
  \/ \E cv \in ConversationInputs, t \in Contents :
       handleMessage("s1", cv, t)
  \/ \E c \in ConnectionInputs, t \in Contents :
       handleSendMessage("s1", c, t)

SpecBlock == InitBlock /\ [][BlockNext]_vars

\* ------------------------------------------------------------ SpecEvents
\* Two users' sockets on two server instances: rooms, the connection-first
\* and conversation-first send events, activity, seen, status and read
EventRooms == {NumberToString(c) : c \in 1..1}

EventsNext ==
  \/ CreateConversation("u1", "u2")
  \/ \E cv \in ConversationInputs, t \in Contents : CreateMessage(cv, "u1", t)
  \/ Connect("s1", BearerU1, "X")
  \/ \E hs \in {NoHandshake, BearerU2}, i \in Instances :
       Connect("s2", hs, i)
  \/ \E s \in Sockets, k \in EventRooms : handleJoinConversationRoom(s, k)
  \/ \E s \in Sockets, t \in Contents : handleSendMessage(s, 1, t)
  \/ \E s \in Sockets, k \in EventRooms : handleUserActivity(s, k)
  \/ \E s \in Sockets : handleMarkSeen(s, 1)
  \/ \E m \in {1}, st \in {"READ", "SENT"} :
       handleMessageStatus("s1", m, st)
  \/ handleMessageRead("s1", 1)
  \/ \E s \in Sockets, cv \in ConversationInputs, t \in Contents :
       handleMessage(s, cv, t)

SpecEvents == Init /\ [][EventsNext]_vars

\* -------------------------------------------------------------- SpecAuth
\* Logins, and requests passing through the HTTP AuthGuard
AuthNext ==
  \/ \E u \in {"u1", "u2"} : handleExistingGoogleUser(u)
  \/ \E h \in Headers : AuthGuard_canActivate(h)

SpecAuth == Init /\ [][AuthNext]_vars

\* ---------------------------------------------------------- SpecOutsider
\* One conversation between u1 and u2, and service calls made for any user,
\* u3 included
OutsiderNext ==
  \/ CreateConversation("u1", "u2")
  \/ \E cv \in ConversationInputs, u \in Users, t \in Contents :
       CreateMessage(cv, u, t)
  \/ \E u \in Users, t \in {"LIKE"} : AddReaction(u, 1, t)
  \/ \E st \in {"DELIVERED", "READ"} : UpdateMessageStatus(1, st)
  \/ MarkMessageAsRead(1)

SpecOutsider == Init /\ [][OutsiderNext]_vars

\* ------------------------------------------------------------- SpecRooms
\* The rooms two sockets come to hold, and the events emitted to rooms: s1
\* is u1's socket, s2 the socket of u2 or of u3, who is no party to the
\* connection between u1 and u2
RoomInputs == {"1", "connection_1"}

RoomsNext ==
  \/ CreateConversation("u1", "u2")
  \/ \E cv \in ConversationInputs, t \in Contents : CreateMessage(cv, "u1", t)
  \/ Connect("s1", BearerU1, "X")
  \/ \E hs \in {BearerU2, BearerU3} : Connect("s2", hs, "X")
  \/ \E s \in Sockets, k \in RoomInputs : handleJoinConversationRoom(s, k)
  \/ \E cv \in ConversationInputs :
       handleJoinConversationParticipant("s2", cv)
  \/ \E k \in {"connection_1"} : handleLeaveConversationParticipant("s2", k)
  \/ handleUserActivity("s1", "1")
  \/ handleMarkSeen("s1", 1)
  \/ \E st \in {"DELIVERED"} : handleMessageStatus("s1", 1, st)
  \/ handleMessageRead("s2", 1)
  \/ \E s \in Sockets : handleMessageReaction(s, 1, "LIKE")
  \/ handleMessageReactionRemove("s1", 1, "LIKE")

SpecRooms == Init /\ [][RoomsNext]_vars

\* -------------------------------------------------------- SpecDisconnect
\* Sockets that disconnect while the guard of a 'conversation:join' is
\* suspended
DisconnectNext ==
  \/ \E s \in Sockets, hs \in {NoHandshake, BearerU1, BearerU2} :
       Connect(s, hs, "X")
  \/ \E s \in Sockets : handleDisconnect(s)
  \/ \E h \in Handlers, s \in Sockets, k \in EventRooms :
       JoinConversationRoomGuard(h, s, k)
  \/ \E h \in Handlers : JoinConversationRoomResume(h)
  \/ \E s \in Sockets, k \in EventRooms : handleLeaveConversationRoom(s, k)

SpecDisconnect == Init /\ [][DisconnectNext]_vars

\* ----------------------------------------------------------- SpecCredits
\* Daily rewards, and transfers run by two handlers at once
TransferAmounts == {1, minTransferAmount, dailyRewardBase}

CreditsNext ==
  \/ \E u \in {"u1", "u2"}, k \in {"BRONZE"} : awardDailyCredits(u, k)
  \/ \E h \in Handlers, to \in {"u2", "ghost"}, a \in TransferAmounts :
       transferCredits(h, "u1", to, a)
  \/ \E h \in Handlers : spendCreditsFind(h)
  \/ \E h \in Handlers : spendCreditsUpdate(h)
  \/ \E h \in Handlers : addCredits(h)

SpecCredits == Init /\ [][CreditsNext]_vars

\* =================================================================== claims
\* the rows of a relation that a call's arguments select, stated apart from
\* the service's own queries
AcceptedFor(connectionId, userId) ==
  /\ connectionId \in 1..Len(connections)
  /\ connections[connectionId].status = "ACCEPTED"
  /\ userId \in {connections[connectionId].requesterId,
                 connections[connectionId].receiverId}

TripleRows(rows, userId, messageId, type) ==
  {r \in rows : r.userId = userId /\ r.messageId = messageId /\ r.type = type}

IsSendMessage == last' # last /\ last'.op = "sendMessage"
IsAddReaction == last' # last /\ last'.op = "addReaction"
IsRemoveReaction == last' # last /\ last'.op = "removeReaction"

\* C1: sendMessage(c, A, content) on a connection c that is ACCEPTED and has
\* A as a party succeeds, creates exactly one Message row, and the returned
\* Message has status SENT.
C1_SendMessageOnAcceptedSucceeds ==
  [][(IsSendMessage /\ AcceptedFor(last'.connectionId, last'.userId)) =>
       /\ last'.outcome = OK
       /\ Len(messages') = Len(messages) + 1
       /\ messages'[Len(messages')].status = "SENT"]_vars

\* C2: sendMessage(c, u, ...) when no Connection row with id c, status
\* ACCEPTED and u as requester or receiver exists fails with NotFound and
\* leaves the Message rows unchanged.
C2_SendMessageWithoutAcceptedNotFound ==
  [][(IsSendMessage /\ ~ AcceptedFor(last'.connectionId, last'.userId)) =>
       /\ last'.outcome = NotFoundException
       /\ messages' = messages]_vars

\* C2 witness: a party of an existing PENDING connection was refused
C2_Witness ==
  /\ last.op = "sendMessage"
  /\ last.outcome = NotFoundException
  /\ last.connectionId \in 1..Len(connections)
  /\ connections[last.connectionId].status = "PENDING"
  /\ connections[last.connectionId].requesterId = last.userId
  /\ messages # <<>>

C4_RaceLoserSeesDuplicateError ==
  /\ \A r1, r2 \in reactions :
       (r1.messageId = r2.messageId /\ r1.userId = r2.userId
          /\ r1.type = r2.type) => r1.id = r2.id
  /\ (last.op = "addReaction" /\ last.outcome # OK
        /\ TripleRows(reactions, last.userId, last.messageId,
                      last.type) # {})
       => last.outcome = BadRequestException

\* C5: removeReaction(u, m, type) with no matching Reaction row fails with
\* NotFound and leaves every Reaction row unchanged; with a matching row,
\* exactly that row is deleted and no other.
C5_RemoveReactionExact ==
  [][(IsRemoveReaction /\ last'.type \in ReactionType) =>
       LET match == TripleRows(reactions, last'.userId, last'.messageId,
                               last'.type)
       IN IF match = {}
            THEN last'.outcome = NotFoundException /\ reactions' = reactions
            ELSE /\ Cardinality(match) = 1
                 /\ reactions' = reactions \ match]_vars

\* C5 witness: a removal found no row while the same user's reaction of
\* another type on the same message stayed
C5_Witness ==
  /\ last.op = "removeReaction"
  /\ last.outcome = NotFoundException
  /\ last.type = "LOVE"
  /\ TripleRows(reactions, last.userId, last.messageId, "LIKE") # {}

\* C6: a message's status never regresses along SENT < DELIVERED < READ.
Rank(status) ==
  CASE status = "SENT" -> 1 [] status = "DELIVERED" -> 2 [] status = "READ" -> 3

C6_StatusNeverRegresses ==
  [][\A m \in 1..Len(messages) :
       Rank(messages'[m].status) >= Rank(messages[m].status)]_vars

\* C7: in every reachable state, for every Message, isRead is true if and
\* only if status is READ.
C7_IsReadIffStatusRead ==
  \A m \in 1..Len(messages) :
    messages[m].isRead <=> (messages[m].status = "READ")

\* C8: in every reachable state there is at most one ACCEPTED Connection per
\* unordered pair of users.
C8_OneAcceptedPerPair ==
  \A i, j \in 1..Len(connections) :
    (/\ connections[i].status = "ACCEPTED"
     /\ connections[j].status = "ACCEPTED"
     /\ {connections[i].requesterId, connections[i].receiverId}
          = {connections[j].requesterId, connections[j].receiverId})
      => i = j

\* C9: a disconnect sets a user's online flag to false only when the
\* disconnecting socket was that user's last live socket.
C9_OfflineOnlyOnLastSocket ==
  [][\A u \in Users :
       (online[u] /\ ~ online'[u]) =>
         ~ \E s \in Sockets : /\ sockets'[s].state = "connected"
                              /\ sockets'[s].user = u]_vars

\* C10: a socket that presents no valid bearer credential is rejected at
\* connect time: it is never live, never carries a user, and is never in a
\* personal room.
C10_NoCredentialRejectedAtConnect ==
  \A s \in Sockets :
    canActivate(sockets[s].handshake) = NoUser =>
      /\ sockets[s].state # "connected"
      /\ sockets[s].user = NoUser
      /\ \A u \in Users : UserRoom(u) \notin sockets[s].rooms

\* the users a BlockedUser row relates
BlockBetween(a, b) ==
  \E row \in blockedUsers :
    {row.blockedById, row.userId} = {a, b} /\ a # b

\* C11: when A has blocked B, the gateway's block check recognises the row
\* (blockedBy = A, user = B), and no Conversation exists between A and B.
C11_BlockStopsConversation ==
  /\ \A row \in blockedUsers : isUserBlocked(row.blockedById, row.userId)
  /\ \A i \in 1..Len(conversations) :
       \A a, b \in conversations[i].participants : ~ BlockBetween(a, b)

C14_RoomEmitReachesEveryInstance ==
  [][(last' # last /\ last'.op = "user:activity:update"
        /\ last'.outcome = OK) =>
       \A t \in Sockets :
         (/\ sockets[t].state = "connected"
          /\ ConversationRoom(last'.conversationId) \in sockets[t].rooms)
           => \E e \in inbox'[t] : /\ e.event = "user:activity"
                                   /\ e.content = last'.userId]_vars

\* C16: an event whose service call fails, or whose handler throws, is
\* answered with an error acknowledgement; no exception escapes a handler.
C16_FailuresAreAcknowledged ==
  (last.socket # "" /\ last.outcome \notin {OK, "WsException"})
    => last.ack \in {"failure", "error"}

\* C17: a successful markMessagesAsSeen(connectionId, userId) leaves no
\* unread message of the other party on that connection.
C17_MarkSeenMarksEveryMessage ==
  (last.op = "markMessagesAsSeen" /\ last.outcome = OK) =>
    \A m \in 1..Len(messages) :
      (/\ messages[m].connectionId = last.connectionId
       /\ messages[m].senderId # last.userId)
        => (messages[m].isRead \/ messages[m].status = "READ")

C19_ConversationHasTwoParticipants ==
  \A i \in 1..Len(conversations) :
    Cardinality(conversations[i].participants) >= 2

\* C20: the HTTP AuthGuard admits a request only when its Authorization
\* header is 'Bearer <token>' with a token that verifies and resolves to a
\* user, and then request.user carries the payload's sub; a missing header
\* or another scheme is refused with 'Authentication token is missing', an
\* expired token with 'Access token has expired', any other failure with
\* 'Invalid authentication token'.
C20_AuthGuardOutcomes ==
  last.op = "AuthGuard" =>
    LET h == last.header
        bearer == Len(h) >= 2 /\ h[1] = "Bearer" /\ h[2] # ""
    IN IF ~ bearer
         THEN /\ last.outcome = "Authentication token is missing"
              /\ last.userId = NoUser
         ELSE IF h[2] = "expired-u1"
           THEN /\ last.outcome = "Access token has expired"
                /\ last.userId = NoUser
           ELSE IF h[2] \in {"jwt-u1", "jwt-u2"}
             THEN /\ last.outcome = OK
                  /\ last.userId = (IF h[2] = "jwt-u1" THEN "u1" ELSE "u2")
             ELSE /\ last.outcome = "Invalid authentication token"
                  /\ last.userId = NoUser

\* C20 witness: a Basic header carrying a token that would verify was refused
\* as missing, after a login
C20_Witness ==
  /\ last.op = "AuthGuard"
  /\ last.header = <<"Basic", "jwt-u1">>
  /\ last.outcome = "Authentication token is missing"
  /\ online["u1"]

\* the requester and receiver of a connection
Parties(connectionId) ==
  {connections[connectionId].requesterId,
   connections[connectionId].receiverId}

\* the messages of a conversation
MessagesOf(conversationId) ==
  {m \in 1..Len(messages) : messages[m].conversationId = conversationId}

\* C21: createMessage(conversationId, senderId, content) on an existing
\* conversation that has a participant other than the sender succeeds,
\* whatever Connection rows the pair already has.
C21_CreateMessageSucceeds ==
  (/\ last.op = "createMessage"
   /\ last.conversationId \in ConversationIds
   /\ conversations[ConversationIndex(last.conversationId)].participants
        \ {last.userId} # {})
    => last.outcome = OK

\* C23: a conversation's lastMessage is its most recent Message, and is
\* empty only while the conversation has no message.
C23_LastMessageIsNewest ==
  \A i \in 1..Len(conversations) :
    LET own == MessagesOf(ConversationId(i))
    IN IF own = {}
         THEN conversations[i].lastMessageId = 0
         ELSE /\ conversations[i].lastMessageId \in own
              /\ \A m \in own : m <= conversations[i].lastMessageId

\* C24: every Message's conversationId names an existing Conversation whose
\* participants are exactly the requester and receiver of the Connection its
\* connectionId names.
C24_MessageLinksAgree ==
  \A m \in 1..Len(messages) :
    /\ messages[m].conversationId \in ConversationIds
    /\ messages[m].connectionId \in 1..Len(connections)
    /\ conversations[ConversationIndex(messages[m].conversationId)]
         .participants = Parties(messages[m].connectionId)

\* C28: a Message is created in a conversation only with a sender who is one
\* of its participants, and a Connection is created by createMessage only
\* between two participants of the conversation.
C28_OnlyParticipantsSend ==
  [][(last' # last /\ last'.op = "createMessage"
        /\ last'.conversationId \in ConversationIds) =>
       LET participants ==
             conversations[ConversationIndex(last'.conversationId)]
               .participants
       IN /\ Len(messages') > Len(messages) =>
               messages'[Len(messages')].senderId \in participants
          /\ Len(connections') > Len(connections) =>
               {connections'[Len(connections')].requesterId,
                connections'[Len(connections')].receiverId}
                 \subseteq participants]_vars

\* C29: the status and isRead of a Message, and its reactions, change only
\* on behalf of a user who is the requester or receiver of the message's
\* Connection.
C29_OnlyPartiesMutateMessage ==
  [][\A m \in 1..Len(messages) :
       (\/ messages'[m] # messages[m]
        \/ {r \in reactions' : r.messageId = m}
             # {r \in reactions : r.messageId = m})
         => last'.userId \in Parties(messages[m].connectionId)]_vars

\* C25: the online flag of a user changes only in the socket connect and
\* disconnect events.
C25_OnlineChangesOnlyAtSockets ==
  [][online' # online => last'.op \in {"connect", "disconnect"}]_vars

C27_OnlyPartiesReceive ==
  \A s \in Sockets : \A e \in inbox[s] : \A k \in 1..Len(connections) :
    (/\ e.event \in {"message:new", "conversation:updated", "message:seen",
                      "user:activity"}
     /\ e.room = "conversation:" \o NumberToString(k))
      => canActivate(sockets[s].handshake) \in Parties(k)

C30_BalanceNeverNegative ==
  \A u \in Users : chatCredits[u].balance >= 0

====
